---- MODULE Spec2Model ----
(***************************************************************************)
(* Product and review routers of the shop backend                          *)
(* (app/routers/products.py, app/routers/reviews.py).                      *)
(*                                                                         *)
(* Every request runs in its own database session; a session is one        *)
(* transaction that sees the committed rows plus its own uncommitted       *)
(* writes, statement by statement (READ COMMITTED, the default of the      *)
(* PostgreSQL engine the full-text operators of products.py require).      *)
(* One action of the model is one awaited database statement of a handler  *)
(* together with the in-memory checks that follow it.                      *)
(***************************************************************************)
EXTENDS Integers, Sequences, FiniteSets

\* ---------------------------------------------------------------- bounds
NumProcs == 2
MaxProducts == 1
MaxReviews == 2
MaxListProducts == 2
MaxPrice == 2

\* ------------------------------------------------------ program constants
MinGrade == 1
MaxGrade == 5
MaxPageSize == 100

\* ------------------------------------------------------------ environment
Procs == 1..NumProcs
Sellers == {1, 2}
Buyers == {3, 4}
Admins == {5}
\* the handlers treat all buyers alike and all sellers alike: one buyer writes
\* the reviews and one seller creates the products, the others only call
Reviewers == {3}
Owners == {1}
Users == Sellers \cup Buyers \cup Admins
ActiveCategories == {1}
InactiveCategories == {2}
None == -1

\* ratings are exact fractions <<numerator, denominator>> in lowest terms
Zero == <<0, 1>>
NULL == <<0, 0>>
\* Product.rating column default
DefaultRating == Zero
\* the session factory keeps the ORM's autoflush: pending rows are sent to
\* the database before a query of the same session runs
Autoflush == TRUE

RECURSIVE GCD(_, _)
GCD(a, b) == IF b = 0 THEN a ELSE GCD(b, a % b)

Frac(n, d) == <<n \div GCD(n, d), d \div GCD(n, d)>>

RECURSIVE SumGrades(_, _)
SumGrades(rs, S) ==
    IF S = {} THEN 0
    ELSE LET i == CHOOSE x \in S : TRUE
         IN rs[i].grade + SumGrades(rs, S \ {i})

\* variant: the aggregate forgets the is_active predicate
ActiveReviews_any(rs, product_id) ==
    {i \in DOMAIN rs : rs[i].product_id = product_id}

\* select(...).where(ReviewModel.product_id == product_id, ReviewModel.is_active)
ActiveReviews(rs, product_id) ==
    {i \in DOMAIN rs : rs[i].product_id = product_id /\ rs[i].is_active}

\* func.avg(ReviewModel.grade): NULL over no rows
avg(rs, product_id) ==
    LET S == ActiveReviews(rs, product_id)
    IN IF S = {} THEN NULL ELSE Frac(SumGrades(rs, S), Cardinality(S))

\* result.scalar() or 0.0
scalar_or_zero(r) == IF r = NULL \/ r[1] = 0 THEN Zero ELSE r

\* Review.validate_grade
validate_grade(value) == MinGrade <= value /\ value <= MaxGrade

NoBody == [category_id |-> 0, price |-> 0, stock |-> 0]
NoQuery == [category_id |-> None, min_price |-> None, max_price |-> None,
            in_stock |-> "None", seller_id |-> None, page |-> 1, page_size |-> 1]
NoReq == [op |-> "none", user |-> 0, id |-> 0, grade |-> 0, body |-> NoBody, q |-> NoQuery]
NoResp == [status |-> 0, items |-> <<>>, total |-> 0]

NoLast == [req |-> NoReq, resp |-> NoResp]

Status(code) == [status |-> code, items |-> <<>>, total |-> 0]

\* --------------------------------------------------------------- inputs
GradeInputs == {MinGrade - 1, MinGrade, MaxGrade - 1, MaxGrade + 1}
CategoryInputs == ActiveCategories \cup InactiveCategories
Bodies == [category_id : CategoryInputs, price : {1, MaxPrice}, stock : {1}]
ProductIdInputs == 1..(MaxProducts + 1)
ReviewIdInputs == 1..(MaxReviews + 1)
BasicQueries == {NoQuery, [NoQuery EXCEPT !.page_size = MaxPageSize]}

VARIABLES products, reviews, pc, req, avg_rating, last, serial

vars == <<products, reviews, pc, req, avg_rating, last, serial>>

\* ------------------------------------------------------------- the tables
ProductIds == DOMAIN products
ReviewIds == DOMAIN reviews

\* select(ProductModel).where(ProductModel.id == product_id, ProductModel.is_active)
ActiveProduct(product_id) ==
    product_id \in ProductIds /\ products[product_id].is_active

\* select(CategoryModel).where(CategoryModel.id == category_id, CategoryModel.is_active)
ActiveCategory(category_id) == category_id \in ActiveCategories

\* ---------------------------------------------------- session bookkeeping
InFlight(t) == pc[t] # "idle"

Quiescent == \A t \in Procs : ~InFlight(t)

\* worker t is free to take a request (a serial server takes one at a time)
Free(t) == last = NoLast /\ pc[t] = "idle" /\ (serial => Quiescent)

\* the handler of t is resumed at its awaited statement
At(t, label) == last = NoLast /\ pc[t] = label

\* the handler of t returns or raises: the response leaves, the session closes
Finish(t, r, response) ==
    /\ pc' = [pc EXCEPT ![t] = "idle"]
    /\ req' = [req EXCEPT ![t] = NoReq]
    /\ last' = [req |-> r, resp |-> response]
    /\ serial' = serial

\* the handler of t awaits its next statement
Goto(t, r, label) ==
    /\ pc' = [pc EXCEPT ![t] = label]
    /\ req' = [req EXCEPT ![t] = r]
    /\ last' = NoLast
    /\ serial' = serial

\* product whose rating the session of t recomputes
RatedProduct(t) ==
    IF req[t].op = "create_review" THEN req[t].id
    ELSE reviews[req[t].id].product_id

\* the reviews table as the session of t sees it: the committed rows and
\* the session's own flushed, uncommitted write
NewReview(t) ==
    [user_id |-> req[t].user, product_id |-> req[t].id,
     grade |-> req[t].grade, is_active |-> TRUE]

SessionReviews(t) ==
    IF req[t].op = "create_review" THEN Append(reviews, NewReview(t))
    ELSE [reviews EXCEPT ![req[t].id].is_active = FALSE]

\* ----------------------------------------------------------- reviews.py
\* create_review, lines 54-64: product check, then the Review is built
\* (validate_grade raises ValueError, which log_middleware turns into 500)
create_review(t) ==
    /\ Free(t)
    /\ Len(reviews) < MaxReviews
    /\ \E u \in Reviewers, product_id \in ProductIdInputs, grade \in GradeInputs :
       /\ LET r == [NoReq EXCEPT !.op = "create_review", !.user = u,
                                 !.id = product_id, !.grade = grade]
          IN IF ~ActiveProduct(product_id) THEN Finish(t, r, Status(400))
             ELSE IF ~validate_grade(grade) THEN Finish(t, r, Status(500))
             ELSE Goto(t, r, "avg")
       /\ UNCHANGED <<products, reviews, avg_rating>>

\* variant: an administrator may delete any review
delete_review_or_admin(t) ==
    /\ Free(t)
    /\ \E u \in Users, review_id \in ReviewIdInputs :
       /\ LET r == [NoReq EXCEPT !.op = "delete_review", !.user = u, !.id = review_id]
          IN IF ~(review_id \in ReviewIds /\ reviews[review_id].is_active)
             THEN Finish(t, r, Status(404))
             ELSE IF reviews[review_id].user_id # u /\ u \notin Admins
             THEN Finish(t, r, Status(403))
             ELSE Goto(t, r, "execute")
       /\ UNCHANGED <<products, reviews, avg_rating>>

\* delete_review, lines 82-95: lookup of the active review, ownership
delete_review(t) ==
    /\ Free(t)
    /\ \E u \in Users, review_id \in ReviewIdInputs :
       /\ LET r == [NoReq EXCEPT !.op = "delete_review", !.user = u, !.id = review_id]
          IN IF ~(review_id \in ReviewIds /\ reviews[review_id].is_active)
             THEN Finish(t, r, Status(404))
             ELSE IF reviews[review_id].user_id # u THEN Finish(t, r, Status(403))
             ELSE Goto(t, r, "execute")
       /\ UNCHANGED <<products, reviews, avg_rating>>

\* the row lock another session's uncommitted UPDATE holds on the review
RowLocked(t, review_id) ==
    \E o \in Procs \ {t} :
        /\ req[o].op = "delete_review"
        /\ req[o].id = review_id
        /\ pc[o] \in {"avg", "commit"}

\* variant: the UPDATE of the review is committed on its own
delete_review_execute_autocommit(t) ==
    /\ At(t, "execute")
    /\ ~RowLocked(t, req[t].id)
    /\ reviews' = [reviews EXCEPT ![req[t].id].is_active = FALSE]
    /\ pc' = [pc EXCEPT ![t] = "avg"]
    /\ last' = NoLast
    /\ UNCHANGED <<products, req, avg_rating, serial>>

\* delete_review, lines 96-98: UPDATE reviews SET is_active = false
delete_review_execute(t) ==
    /\ At(t, "execute")
    /\ ~RowLocked(t, req[t].id)
    /\ pc' = [pc EXCEPT ![t] = "avg"]
    /\ last' = NoLast
    /\ UNCHANGED <<products, reviews, req, avg_rating, serial>>

\* the rows the SELECT of the session of t reads: a Review added with
\* db.add reaches the database before the SELECT only by autoflush, the
\* executed UPDATE of delete_review always
QueriedReviews(t) ==
    IF req[t].op = "create_review" /\ ~Autoflush THEN reviews ELSE SessionReviews(t)

\* update_product_rating, lines 22-27
update_product_rating_avg(t) ==
    /\ At(t, "avg")
    /\ avg_rating' = [avg_rating EXCEPT
                        ![t] = scalar_or_zero(avg(QueriedReviews(t), RatedProduct(t)))]
    /\ pc' = [pc EXCEPT ![t] = "commit"]
    /\ last' = NoLast
    /\ UNCHANGED <<products, reviews, req, serial>>

\* update_product_rating, lines 28-30, and the tail of the handler
update_product_rating_commit(t) ==
    /\ At(t, "commit")
    /\ reviews' = SessionReviews(t)
    /\ products' = [products EXCEPT ![RatedProduct(t)].rating = avg_rating[t]]
    /\ Finish(t, req[t], Status(IF req[t].op = "create_review" THEN 201 ELSE 200))
    /\ avg_rating' = [avg_rating EXCEPT ![t] = Zero]

\* ---------------------------------------------------------- products.py
\* Python truthiness of an optional number: None and 0 are falsy
Truthy(v) == v # None /\ v # 0

\* lines 49-60: the filter list
Matches(p, q) ==
    /\ products[p].is_active
    /\ (Truthy(q.category_id) => products[p].category_id = q.category_id)
    /\ (Truthy(q.min_price) => products[p].price >= q.min_price)
    /\ (Truthy(q.max_price) => products[p].price <= q.max_price)
    /\ (q.in_stock = "true" => products[p].stock > 0)
    /\ (Truthy(q.seller_id) => products[p].seller_id = q.seller_id)

RECURSIVE OrderById(_)
OrderById(S) ==
    IF S = {} THEN <<>>
    ELSE LET m == CHOOSE x \in S : \A y \in S : x <= y
         IN <<m>> \o OrderById(S \ {m})

\* .offset((page - 1) * page_size).limit(page_size)
OffsetLimit(s, page, page_size) ==
    SubSeq(s, (page - 1) * page_size + 1,
           IF page * page_size < Len(s) THEN page * page_size ELSE Len(s))

\* line 42
PriceRangeRejected(q) ==
    Truthy(q.min_price) /\ Truthy(q.max_price) /\ q.min_price > q.max_price

\* get_all_products, lines 42-113 (requests without the search parameter)
get_all_products(t, queries) ==
    /\ Free(t)
    /\ \E q \in queries :
       /\ LET r == [NoReq EXCEPT !.op = "get_all_products", !.q = q]
              found == {p \in ProductIds : Matches(p, q)}
          IN IF PriceRangeRejected(q) THEN Finish(t, r, Status(400))
             ELSE Finish(t, r, [status |-> 200,
                                items |-> OffsetLimit(OrderById(found), q.page, q.page_size),
                                total |-> Cardinality(found)])
       /\ UNCHANGED <<products, reviews, avg_rating>>

\* create_product, lines 125-139
create_product(t) ==
    /\ Free(t)
    /\ Len(products) < MaxProducts
    /\ \E u \in Owners, body \in Bodies :
       /\ LET r == [NoReq EXCEPT !.op = "create_product", !.user = u, !.body = body]
          IN IF ~ActiveCategory(body.category_id)
             THEN /\ Finish(t, r, Status(400))
                  /\ products' = products
             ELSE /\ products' = Append(products,
                        [is_active |-> TRUE, seller_id |-> u,
                         category_id |-> body.category_id, price |-> body.price,
                         stock |-> body.stock, rating |-> DefaultRating])
                  /\ Finish(t, [r EXCEPT !.id = Len(products) + 1], Status(201))
       /\ UNCHANGED <<reviews, avg_rating>>

\* get_product, lines 205-230
get_product(t) ==
    /\ Free(t)
    /\ \E product_id \in ProductIdInputs :
       /\ LET r == [NoReq EXCEPT !.op = "get_product", !.id = product_id]
          IN IF ~ActiveProduct(product_id) THEN Finish(t, r, Status(404))
             ELSE IF ~ActiveCategory(products[product_id].category_id)
                  THEN Finish(t, r, Status(400))
             ELSE Finish(t, r, [status |-> 200, items |-> <<product_id>>, total |-> 1])
       /\ UNCHANGED <<products, reviews, avg_rating>>

\* variant: the category is validated before the ownership
update_product_category_first(t) ==
    /\ Free(t)
    /\ \E u \in Sellers, product_id \in ProductIdInputs, body \in Bodies :
       /\ LET r == [NoReq EXCEPT !.op = "update_product", !.user = u,
                                 !.id = product_id, !.body = body]
          IN IF ~ActiveProduct(product_id) THEN Finish(t, r, Status(404))
             ELSE IF ~ActiveCategory(body.category_id) THEN Finish(t, r, Status(400))
             ELSE IF products[product_id].seller_id # u THEN Finish(t, r, Status(403))
             ELSE Goto(t, r, "write")
       /\ UNCHANGED <<products, reviews, avg_rating>>

\* update_product, lines 243-267: product lookup, ownership, category
update_product(t) ==
    /\ Free(t)
    /\ \E u \in Sellers, product_id \in ProductIdInputs, body \in Bodies :
       /\ LET r == [NoReq EXCEPT !.op = "update_product", !.user = u,
                                 !.id = product_id, !.body = body]
          IN IF ~ActiveProduct(product_id) THEN Finish(t, r, Status(404))
             ELSE IF products[product_id].seller_id # u THEN Finish(t, r, Status(403))
             ELSE IF ~ActiveCategory(body.category_id) THEN Finish(t, r, Status(400))
             ELSE Goto(t, r, "write")
       /\ UNCHANGED <<products, reviews, avg_rating>>

\* variant: any seller may delete the product
delete_product_any_seller(t) ==
    /\ Free(t)
    /\ \E u \in Sellers, product_id \in ProductIdInputs :
       /\ LET r == [NoReq EXCEPT !.op = "delete_product", !.user = u, !.id = product_id]
          IN IF ~ActiveProduct(product_id) THEN Finish(t, r, Status(404))
             ELSE Goto(t, r, "write")
       /\ UNCHANGED <<products, reviews, avg_rating>>

\* delete_product, lines 287-302: product lookup, ownership
delete_product(t) ==
    /\ Free(t)
    /\ \E u \in Sellers, product_id \in ProductIdInputs :
       /\ LET r == [NoReq EXCEPT !.op = "delete_product", !.user = u, !.id = product_id]
          IN IF ~ActiveProduct(product_id) THEN Finish(t, r, Status(404))
             ELSE IF products[product_id].seller_id # u THEN Finish(t, r, Status(403))
             ELSE Goto(t, r, "write")
       /\ UNCHANGED <<products, reviews, avg_rating>>

\* variant: the update body carries is_active = true
UpdateValues_reactivate(row, r) ==
    IF r.op = "update_product"
    THEN [row EXCEPT !.category_id = r.body.category_id, !.price = r.body.price,
                     !.stock = r.body.stock, !.is_active = TRUE]
    ELSE [row EXCEPT !.is_active = FALSE]

\* update(ProductModel).where(ProductModel.id == product_id).values(...)
UpdateValues(row, r) ==
    IF r.op = "update_product"
    THEN [row EXCEPT !.category_id = r.body.category_id,
                     !.price = r.body.price, !.stock = r.body.stock]
    ELSE [row EXCEPT !.is_active = FALSE]

\* update_product, lines 268-275, and delete_product, lines 303-310
product_write_commit(t) ==
    /\ At(t, "write")
    /\ products' = [products EXCEPT ![req[t].id] = UpdateValues(@, req[t])]
    /\ Finish(t, req[t], [status |-> 200, items |-> <<req[t].id>>, total |-> 1])
    /\ UNCHANGED <<reviews, avg_rating>>

\* ------------------------------------------------------------- main.py
\* log_middleware, lines 48-53: a statement that raises ends the request
\* with 500; the session closes without a commit
Fail(t) ==
    /\ last = NoLast
    /\ InFlight(t)
    /\ Finish(t, req[t], Status(500))
    /\ avg_rating' = [avg_rating EXCEPT ![t] = Zero]
    /\ UNCHANGED <<products, reviews>>

\* log_middleware, line 54: the response is handed to the client
Return ==
    /\ last # NoLast
    /\ last' = NoLast
    /\ UNCHANGED <<products, reviews, pc, req, avg_rating, serial>>

Init ==
    /\ products = <<>>
    /\ reviews = <<>>
    /\ pc = [t \in Procs |-> "idle"]
    /\ req = [t \in Procs |-> NoReq]
    /\ avg_rating = [t \in Procs |-> Zero]
    /\ last = NoLast
    /\ serial = FALSE

Next ==
    \/ \E t \in Procs : create_review(t)
    \/ \E t \in Procs : delete_review(t)
    \/ \E t \in Procs : create_product(t)
    \/ \E t \in Procs : update_product(t)
    \/ \E t \in Procs : delete_product(t)
    \/ \E t \in Procs : get_product(t)
    \/ \E t \in Procs : get_all_products(t, BasicQueries)
    \/ \E t \in Procs : delete_review_execute(t)
    \/ \E t \in Procs : update_product_rating_avg(t)
    \/ \E t \in Procs : update_product_rating_commit(t)
    \/ \E t \in Procs : product_write_commit(t)
    \/ \E t \in Procs : Fail(t)
    \/ Return

Spec == Init /\ [][Next]_vars

\* the same server with a single worker: requests run one after another
InitSeq ==
    /\ products = <<>>
    /\ reviews = <<>>
    /\ pc = [t \in Procs |-> "idle"]
    /\ req = [t \in Procs |-> NoReq]
    /\ avg_rating = [t \in Procs |-> Zero]
    /\ last = NoLast
    /\ serial = TRUE

SpecSeq == InitSeq /\ [][Next]_vars

\* ------------------------------------------------ listing over any table
PriceValues == 0..MaxPrice
ListRows ==
    [is_active : BOOLEAN, seller_id : Owners, category_id : {1, 2},
     price : PriceValues, stock : {0, 1}, rating : {DefaultRating}]
ListTables == UNION {[1..n -> ListRows] : n \in 0..MaxListProducts}
ListQueries ==
    [category_id : {None, 1}, min_price : {None} \cup PriceValues,
     max_price : {None} \cup PriceValues, in_stock : {"None", "true", "false"},
     seller_id : {None} \cup Sellers, page : {1, 2}, page_size : {1, MaxPageSize}]

InitList ==
    /\ products \in ListTables
    /\ reviews = <<>>
    /\ pc = [t \in Procs |-> "idle"]
    /\ req = [t \in Procs |-> NoReq]
    /\ avg_rating = [t \in Procs |-> Zero]
    /\ last = NoLast
    /\ serial = FALSE

NextList ==
    \/ \E t \in Procs : get_all_products(t, ListQueries)
    \/ Return

SpecList == InitList /\ [][NextList]_vars

\* ====================================================================
\* Properties
\* ====================================================================

\* the step is the call of a handler: a free worker takes a request and runs
\* it up to its first await or to its response
IsCall ==
    /\ last = NoLast
    /\ \/ pc' = pc /\ last' # NoLast
       \/ \E t \in Procs : pc[t] = "idle" /\ pc'[t] # "idle"

\* the request of that call
CallReq ==
    IF pc' = pc THEN last'.req
    ELSE req'[CHOOSE t \in Procs : pc[t] = "idle" /\ pc'[t] # "idle"]

\* the call answers at once with the error code and writes nothing
Rejected(code) ==
    /\ pc' = pc
    /\ last'.resp.status = code
    /\ products' = products
    /\ reviews' = reviews

\* the call passes its checks and goes on to its first write
Proceeds == pc' # pc /\ last' = NoLast /\ products' = products /\ reviews' = reviews

\* the stored rating of p is the mean grade of its active committed reviews
RatingIsMean(p) ==
    LET S == {r \in ReviewIds : reviews[r].product_id = p /\ reviews[r].is_active}
    IN IF S = {} THEN products[p].rating = <<0, 1>>
       ELSE /\ products[p].rating[2] > 0
            /\ products[p].rating[1] * Cardinality(S)
                 = SumGrades(reviews, S) * products[p].rating[2]

\* C1: with the review requests running one after another, every product's
\* stored rating is the arithmetic mean of the grades of its active reviews,
\* and 0 when it has none.
C1_RatingIsMean == \A p \in ProductIds : RatingIsMean(p)

\* a review was soft-deleted and the product keeps another active review
C1_Witness ==
    /\ last.req.op = "delete_review"
    /\ last.resp.status = 200
    /\ \E r \in ReviewIds :
        /\ reviews[r].is_active
        /\ reviews[r].product_id = reviews[last.req.id].product_id
        /\ products[reviews[r].product_id].rating = <<reviews[r].grade, 1>>

\* C2: once concurrent review requests on a product have all committed, the
\* product's rating is the mean over the reviews active then (no lost update).
C2_NoLostUpdate == Quiescent => \A p \in ProductIds : RatingIsMean(p)

\* C3: the review mutation and the recomputed rating become visible in one
\* commit, and a review request that fails leaves reviews and products as
\* they were.
C3_Step ==
    /\ (reviews' # reviews \/ \E p \in ProductIds : products'[p].rating # products[p].rating)
         => \E t \in Procs :
              /\ pc[t] = "commit" /\ pc'[t] = "idle"
              /\ last'.resp.status \in {200, 201}
              /\ IF req[t].op = "create_review"
                 THEN reviews' = Append(reviews, NewReview(t))
                 ELSE reviews' = [reviews EXCEPT ![req[t].id].is_active = FALSE]
              /\ products'[RatedProduct(t)].rating = avg_rating[t]
    /\ (\E t \in Procs :
            /\ pc[t] \in {"execute", "avg", "commit"} /\ pc'[t] = "idle"
            /\ last'.resp.status \notin {200, 201})
         => reviews' = reviews /\ products' = products

C3_OneCommit == [][C3_Step]_vars

\* the last active review of a product was soft-deleted: flag and rating
\* arrived together
C3_Witness ==
    /\ last.req.op = "delete_review"
    /\ last.resp.status = 200
    /\ ~reviews[last.req.id].is_active
    /\ products[reviews[last.req.id].product_id].rating = Zero
    /\ \A r \in ReviewIds : ~reviews[r].is_active

\* C4: GET /products/ answers 400 whenever min_price and max_price are both
\* supplied and min_price > max_price, max_price = 0 included.
C4_RejectsInvertedRange ==
    (/\ last.req.op = "get_all_products"
     /\ last.req.q.min_price # None
     /\ last.req.q.max_price # None
     /\ last.req.q.min_price > last.req.q.max_price)
        => last.resp.status = 400

\* a supplied filter is applied whatever its value
Satisfies(p, q) ==
    /\ products[p].is_active
    /\ (q.category_id # None => products[p].category_id = q.category_id)
    /\ (q.min_price # None => products[p].price >= q.min_price)
    /\ (q.max_price # None => products[p].price <= q.max_price)
    /\ (q.in_stock = "true" => products[p].stock > 0)
    /\ (q.in_stock = "false" => products[p].stock = 0)
    /\ (q.seller_id # None => products[p].seller_id = q.seller_id)

\* C5: the total of GET /products/ is the number of active products that
\* satisfy every supplied filter, whatever the page.
C5_TotalCountsSuppliedFilters ==
    (last.req.op = "get_all_products" /\ last.resp.status = 200)
        => last.resp.total = Cardinality({p \in ProductIds : Satisfies(p, last.req.q)})

\* C6: update_product or delete_product called by a seller who does not own
\* the existing active product answers 403 and leaves the product as it was.
C6_Step ==
    (/\ IsCall
     /\ CallReq.op \in {"update_product", "delete_product"}
     /\ ActiveProduct(CallReq.id)
     /\ products[CallReq.id].seller_id # CallReq.user)
        => (Rejected(403) /\ products'[CallReq.id].is_active)

C6_NotOwnerForbidden == [][C6_Step]_vars

C6_Witness ==
    /\ last.req.op = "delete_product"
    /\ last.resp.status = 403
    /\ ActiveProduct(last.req.id)
    /\ products[last.req.id].seller_id # last.req.user

\* C7: a soft-deleted product stays soft-deleted, its row stays in the table
\* and referenced by its reviews, GET /products/{id} answers 404 for it and
\* GET /products/ never lists it.
C7_Step ==
    /\ \A p \in ProductIds :
         ~products[p].is_active => (p \in DOMAIN products' /\ ~products'[p].is_active)
    /\ \A r \in ReviewIds : reviews[r].product_id \in ProductIds
    /\ (IsCall /\ CallReq.op = "get_product"
          /\ CallReq.id \in ProductIds /\ ~products[CallReq.id].is_active)
         => Rejected(404)
    /\ (IsCall /\ CallReq.op = "get_all_products")
         => \A i \in DOMAIN last'.resp.items : products[last'.resp.items[i]].is_active

C7_DeletedStaysHidden == [][C7_Step]_vars

C7_Witness ==
    /\ last.req.op = "get_product"
    /\ last.resp.status = 404
    /\ last.req.id \in ProductIds
    /\ ~products[last.req.id].is_active
    /\ \E r \in ReviewIds : reviews[r].product_id = last.req.id

\* C8: no step changes a field of a product or of a review that is
\* soft-deleted when the step is taken.
C8_Step ==
    /\ \A p \in ProductIds : ~products[p].is_active => products'[p] = products[p]
    /\ \A r \in ReviewIds : ~reviews[r].is_active => reviews'[r] = reviews[r]

C8_DeletedNeverWritten == [][C8_Step]_vars

\* C9 as claimed: update_product by a seller who is not the owner, with a
\* category that is missing or inactive, answers 400.
C9_Original_Step ==
    (/\ IsCall
     /\ CallReq.op = "update_product"
     /\ ActiveProduct(CallReq.id)
     /\ products[CallReq.id].seller_id # CallReq.user
     /\ ~ActiveCategory(CallReq.body.category_id))
        => Rejected(400)

C9_Step ==
    IsCall =>
        LET r == CallReq IN
        CASE r.op = "update_product" ->
               IF ~ActiveProduct(r.id) THEN Rejected(404)
               ELSE IF products[r.id].seller_id # r.user THEN Rejected(403)
               ELSE IF ~ActiveCategory(r.body.category_id) THEN Rejected(400)
               ELSE Proceeds
          [] r.op = "delete_product" ->
               IF ~ActiveProduct(r.id) THEN Rejected(404)
               ELSE IF products[r.id].seller_id # r.user THEN Rejected(403)
               ELSE Proceeds
          [] r.op = "delete_review" ->
               IF ~(r.id \in ReviewIds /\ reviews[r.id].is_active) THEN Rejected(404)
               ELSE IF reviews[r.id].user_id # r.user THEN Rejected(403)
               ELSE Proceeds
          [] r.op = "create_product" ->
               IF ~ActiveCategory(r.body.category_id) THEN Rejected(400)
               ELSE last'.resp.status = 201
          [] r.op = "create_review" ->
               IF ~ActiveProduct(r.id) THEN Rejected(400)
               ELSE IF ~validate_grade(r.grade) THEN Rejected(500)
               ELSE Proceeds
          [] OTHER -> TRUE

C10_Step ==
    /\ (IsCall /\ CallReq.op = "delete_review")
         => IF ~(CallReq.id \in ReviewIds /\ reviews[CallReq.id].is_active)
            THEN Rejected(404)
            ELSE IF reviews[CallReq.id].user_id # CallReq.user
            THEN Rejected(403) /\ reviews'[CallReq.id].is_active
            ELSE Proceeds
    /\ (last'.req.op = "delete_review" /\ last'.resp.status = 200)
         => reviews[last'.req.id].user_id = last'.req.user

====
